---- MODULE Spec2Model ----
(***************************************************************************)
(* binstruct - binary structure serialization (src/server/binstruct.py).   *)
(* The codec is a set of pure functions over byte arrays and a read        *)
(* cursor.  Every function is an operator computed the way the Python 2    *)
(* code computes it; the state machine is a caller that picks an input,    *)
(* applies an encoder, then applies the matching decoder to a stream.      *)
(***************************************************************************)
EXTENDS Integers, Sequences, FiniteSets, TLC

\* pc      the caller's position
\* n       the integer handed to eliasGammaEncode / intEncode
\* vals    the values handed to floatEncode / varEncode, in order
\* stream  the bytes of the StringIO the decoders read
\* pos     the read cursor of the stream (bytes consumed)
\* starts  the length of the stream before each varEncode output was written
\* enc     what the last encoder call returned or raised
\* ret     what the last decoder call returned or raised
\* visited the number of decoder calls made on the stream
VARIABLES pc, n, vals, stream, pos, starts, enc, ret, visited

vars == <<pc, n, vals, stream, pos, starts, enc, ret, visited>>

(* ------------------------------ bounds --------------------------------- *)

\* Python integers are unbounded; the inputs keep every integer field
\* within three bytes, so that 256 ** byteLen stays a TLC integer.

MaxGamma == 4200
MaxInt == 33000
MaxStrLen == 2
MaxSeq == 2

(* ------------------------- Python object model ------------------------- *)

\* a byte sequence of one of the two Python 2 types the module mixes
Arr(b) == [ty |-> "array", b |-> b]
PyStr(b) == [ty |-> "str", b |-> b]
PyNone == [ty |-> "NoneType", b |-> <<>>]
Raise(e) == [ty |-> e, b |-> <<>>]

IsBytes(x) == x.ty \in {"array", "str"}
IsExc(x) == x.ty \notin {"array", "str", "NoneType"}

\* x + y on array('B') / str operands: array.__add__ accepts only an array
Add(x, y) ==
  IF IsExc(x) THEN x
  ELSE IF IsExc(y) THEN y
  ELSE IF x.ty = "array" /\ y.ty = "array" THEN Arr(x.b \o y.b)
  ELSE IF x.ty = "str" /\ y.ty = "str" THEN PyStr(x.b \o y.b)
  ELSE Raise("TypeError")

Repeat(s, k) == [j \in 1..(k * Len(s)) |-> s[((j - 1) % Len(s)) + 1]]

\* x * k on an array
Mul(x, k) == IF IsExc(x) THEN x ELSE [ty |-> x.ty, b |-> Repeat(x.b, k)]

\* len(x): None has no len()
PyLen(x) == IF IsBytes(x) THEN Len(x.b) ELSE -1

RECURSIVE Pow(_, _)
Pow(b, e) == IF e <= 0 THEN 1 ELSE b * Pow(b, e - 1)

Abs(x) == IF x < 0 THEN -x ELSE x

(* ------------------------------ values --------------------------------- *)

\* the dynamically typed values varEncode dispatches on
VNil == [t |-> "Nil", b |-> FALSE, i |-> 0, s |-> <<>>, f |-> <<>>, items |-> <<>>]
VBool(x) == [t |-> "Bool", b |-> x, i |-> 0, s |-> <<>>, f |-> <<>>, items |-> <<>>]
VInt(x) == [t |-> "Int", b |-> FALSE, i |-> x, s |-> <<>>, f |-> <<>>, items |-> <<>>]
VStr(x) == [t |-> "Str", b |-> FALSE, i |-> 0, s |-> x, f |-> <<>>, items |-> <<>>]
\* a float is <<class, num, denom, e>>: class "nan", "inf", "-inf" or "fin",
\* and for "fin" the value num/denom * 2^e as frexp/as_integer_ratio give it
VFloat(x) == [t |-> "Float", b |-> FALSE, i |-> 0, s |-> <<>>, f |-> x, items |-> <<>>]
VList(x) == [t |-> "List", b |-> FALSE, i |-> 0, s |-> <<>>, f |-> <<>>, items |-> x]
VMap(x) == [t |-> "Map", b |-> FALSE, i |-> 0, s |-> <<>>, f |-> <<>>, items |-> x]

\* decoder outcome: a returned value, or the exception that left the call
Ok(v, p) == [kind |-> "ok", val |-> v, pos |-> p, via |-> "none"]
Exc(e, p) == [kind |-> e, val |-> VNil, pos |-> p, via |-> "none"]
NoRet == [kind |-> "none", val |-> VNil, pos |-> 0, via |-> "none"]

(* --------------------------- stream (StringIO) ------------------------- *)

\* number of bytes stream.read(k) returns at cursor p: k < 0 reads the rest
ReadCount(st, p, k) ==
  LET rest == Len(st) - p
  IN IF k < 0 THEN rest ELSE IF k < rest THEN k ELSE rest

Read(st, p, k) == SubSeq(st, p + 1, p + ReadCount(st, p, k))

(* ------------------------------ Elias gamma ---------------------------- *)

RECURSIVE bitsOf(_)
bitsOf(x) == IF x = 0 THEN 0 ELSE 1 + bitsOf(x \div 2)

RECURSIVE bitListToInt(_)
bitListToInt(l) ==
  IF l = <<>> THEN 0
  ELSE 2 * bitListToInt(SubSeq(l, 1, Len(l) - 1)) + (IF l[Len(l)] THEN 1 ELSE 0)

Slice(l, from, to) == SubSeq(l, from + 1, IF to < Len(l) THEN to ELSE Len(l))

\* bitListToBin storing the bytes last to first
bitListToBinReversed(l) ==
  [k \in 1..(Len(l) \div 8) |->
     bitListToInt(Slice(l, Len(l) - 8 * k, Len(l) - 8 * (k - 1)))]

bitListToBin(l) ==
  [k \in 1..(Len(l) \div 8) |-> bitListToInt(Slice(l, 8 * (k - 1), 8 * k))]

\* the bits of x from mask bit down to 1 (the while bit > 0 loop)
RECURSIVE BitsFrom(_, _)
BitsFrom(x, bit) ==
  IF bit <= 0 THEN <<>>
  ELSE <<((x \div bit) % 2) = 1>> \o BitsFrom(x, bit \div 2)

eliasGammaEncode(x) ==
  LET bitLen == bitsOf(x)
      binData == [k \in 1..(bitLen - 1) |-> FALSE] \o BitsFrom(x, Pow(2, bitLen - 1))
      pad == (-Len(binData)) % 8
  IN Arr(bitListToBin(binData \o [k \in 1..pad |-> FALSE]))

\* readBits() and the decoding loop together: byte/mask are the generator's
\* position, num/state/bitM the loop's locals.  ord('') at end of stream is
\* a TypeError.
RECURSIVE GammaLoop(_, _, _, _, _, _, _)
GammaLoop(st, p, byte, mask, num, state, bitM) ==
  IF mask = 0
  THEN IF p >= Len(st) THEN Exc("TypeError", p)
       ELSE GammaLoop(st, p + 1, st[p + 1], 128, num, state, bitM)
  ELSE LET b == ((byte \div mask) % 2) = 1
       IN IF state = 0 /\ ~b
          THEN GammaLoop(st, p, byte, mask \div 2, num, 0, bitM * 2)
          ELSE LET num2 == num + bitM * (IF b THEN 1 ELSE 0)
                   bitM2 == bitM \div 2
               IN IF bitM2 = 0 THEN Ok(VInt(num2), p)
                  ELSE GammaLoop(st, p, byte, mask \div 2, num2, 1, bitM2)

eliasGammaDecode(st, p) == GammaLoop(st, p, 0, 0, 0, 0, 1)

(* ------------------------------- integers ------------------------------ *)

\* intToBin without the bit for the sign
intToBinNoSign(x) ==
  LET bitLen == IF x >= 0 THEN bitsOf(x) ELSE bitsOf(Abs(x + 1))
      byteLen == (bitLen + 7) \div 8
      y == IF x < 0 THEN x + Pow(256, byteLen) ELSE x
  IN Arr([k \in 1..byteLen |-> (y \div Pow(256, byteLen - k)) % 256])

intToBin(x) ==
  LET bitLen == (IF x >= 0 THEN bitsOf(x) ELSE bitsOf(Abs(x + 1))) + 1
      byteLen == (bitLen + 7) \div 8
      y == IF x < 0 THEN x + Pow(256, byteLen) ELSE x
  IN Arr([k \in 1..byteLen |-> (y \div Pow(256, byteLen - k)) % 256])

RECURSIVE Unsigned(_)
Unsigned(bin) ==
  IF bin = <<>> THEN 0
  ELSE 256 * Unsigned(SubSeq(bin, 1, Len(bin) - 1)) + bin[Len(bin)]

\* for an empty string 2**(byteLen*8 - 1) is 0.5 and n = 0 is below it
binToInt(bin) ==
  LET byteLen == Len(bin)
      u == Unsigned(bin)
  IN IF byteLen > 0 /\ u >= Pow(2, byteLen * 8 - 1) THEN u - Pow(256, byteLen) ELSE u

intEncode(x) ==
  LET bin == intToBin(x)
  IN Add(eliasGammaEncode(PyLen(bin)), bin)

intDecode(st, p) ==
  LET g == eliasGammaDecode(st, p)
  IN IF g.kind # "ok" THEN g
     ELSE Ok(VInt(binToInt(Read(st, g.pos, g.val.i))),
             g.pos + ReadCount(st, g.pos, g.val.i))

(* -------------------------------- bool --------------------------------- *)

\* returns a str, not an array
boolEncode(b) == PyStr(IF b THEN <<1>> ELSE <<0>>)

boolDecode(st, p) ==
  IF p >= Len(st) THEN Exc("TypeError", p) ELSE Ok(VBool(st[p + 1] # 0), p + 1)

(* -------------------------------- float -------------------------------- *)

\* intEncode on a number of Python type ty: intToBin calls x.bit_length(),
\* which a float (the result of math.copysign) does not have
numEncode(ty, x) == IF ty = "float" THEN Raise("AttributeError") ELSE intEncode(x)

floatEncode(x) ==
  IF x[1] = "nan" THEN Mul(intEncode(0), 3)
  ELSE IF x[1] \in {"inf", "-inf"}
  THEN Add(numEncode("float", IF x[1] = "inf" THEN 1 ELSE -1), Mul(intEncode(0), 2))
  ELSE Add(Add(intEncode(x[2]), intEncode(x[3])), intEncode(x[4]))

RECURSIVE TwosIn(_)
TwosIn(x) == IF x = 0 \/ x % 2 = 1 THEN 0 ELSE 1 + TwosIn(x \div 2)

\* the double num/denom * 2^e (denom a power of two), as frexp and
\* as_integer_ratio would decompose it again
floatValue(num, denom, e) ==
  IF num = 0 THEN <<"fin", 0, 1, 0>>
  ELSE LET sgn == IF (num < 0) = (denom < 0) THEN 1 ELSE -1
           k == TwosIn(Abs(num))
           odd == Abs(num) \div Pow(2, k)
           d == bitsOf(Abs(denom)) - 1
       IN <<"fin", sgn * odd, Pow(2, bitsOf(odd)), k + e - d + bitsOf(odd)>>

\* float(num)/denom raises ZeroDivisionError for denom = 0
floatDecode(st, p) ==
  LET num == intDecode(st, p)
      denom == intDecode(st, num.pos)
      e == intDecode(st, denom.pos)
  IN IF num.kind # "ok" THEN num
     ELSE IF denom.kind # "ok" THEN denom
     ELSE IF e.kind # "ok" THEN e
     ELSE IF denom.val.i = 0 THEN Exc("ZeroDivisionError", e.pos)
     ELSE Ok(VFloat(floatValue(num.val.i, denom.val.i, e.val.i)), e.pos)

(* ------------------------------- strings ------------------------------- *)

strEncode(s) == Add(intEncode(Len(s)), Arr(s))

\* stream.read(strLen) with strLen < 0 returns the rest of the stream
strDecode(st, p) ==
  LET strLen == intDecode(st, p)
  IN IF strLen.kind # "ok" THEN strLen
     ELSE Ok(VStr(Read(st, strLen.pos, strLen.val.i)),
             strLen.pos + ReadCount(st, strLen.pos, strLen.val.i))

(* ---------------------------- lists and dicts -------------------------- *)

\* the bodies are "pass": every call returns None and reads nothing
listEncode(l) == PyNone

listDecode(st, p) == Ok(VNil, p)

dictEncode(d) == PyNone

dictDecode(st, p) == Ok(VNil, p)

(* ------------------------------- variants ------------------------------ *)

\* prefixWithSize counting the body without the type byte
prefixWithBodySize(data) ==
  IF IsExc(data) THEN data ELSE Add(intEncode(PyLen(data) - 1), data)

\* prefixWithSize writing the size as a bare gamma code
prefixWithGammaSize(data) ==
  IF IsExc(data) THEN data ELSE Add(eliasGammaEncode(PyLen(data)), data)

prefixWithSize(data) ==
  IF IsExc(data) THEN data ELSE Add(intEncode(PyLen(data)), data)

\* len(None) in the list and dict branches is a TypeError
varEncode(v) ==
  IF v.t = "Nil" THEN intEncode(0)
  ELSE IF v.t = "Bool" THEN prefixWithSize(Add(Arr(<<3>>), boolEncode(v.b)))
  ELSE IF v.t = "Int" THEN prefixWithSize(Add(Arr(<<4>>), intEncode(v.i)))
  ELSE IF v.t = "Float" THEN prefixWithSize(Add(Arr(<<5>>), floatEncode(v.f)))
  ELSE IF v.t = "Str" THEN prefixWithSize(Add(Arr(<<6>>), strEncode(v.s)))
  ELSE IF v.t = "List"
  THEN LET data == listEncode(v.items)
       IN IF ~IsBytes(data) THEN Raise("TypeError")
          ELSE Add(Add(intEncode(PyLen(data) + 1), Arr(<<1>>)), data)
  ELSE LET data == dictEncode(v.items)
       IN IF ~IsBytes(data) THEN Raise("TypeError")
          ELSE Add(Add(intEncode(PyLen(data) + 1), Arr(<<2>>)), data)

Via(r, name) == [r EXCEPT !.via = name]

\* dispatch where the last test has no condition
dispatchFallThrough(type) ==
  CASE type = 1 -> "listDecode"
    [] type = 2 -> "dictDecode"
    [] type = 3 -> "boolDecode"
    [] type = 4 -> "intDecode"
    [] type = 5 -> "floatDecode"
    [] OTHER -> "strDecode"

\* the sub-decoder varDecode calls for a type byte, "" for none
dispatch(type) ==
  CASE type = 1 -> "listDecode"
    [] type = 2 -> "dictDecode"
    [] type = 3 -> "boolDecode"
    [] type = 4 -> "intDecode"
    [] type = 5 -> "floatDecode"
    [] type = 6 -> "strDecode"
    [] OTHER -> ""

varDecode(st, p) ==
  LET varLen == intDecode(st, p)
  IN IF varLen.kind # "ok" THEN varLen
     ELSE IF varLen.val.i < 0 THEN Exc("FormatError", varLen.pos)
     ELSE IF varLen.val.i = 0 THEN Ok(VNil, varLen.pos)
     ELSE IF varLen.pos >= Len(st) THEN Exc("TypeError", varLen.pos)
     ELSE LET type == st[varLen.pos + 1]
              q == varLen.pos + 1
              d == dispatch(type)
          IN CASE d = "listDecode" -> Via(listDecode(st, q), d)
               [] d = "dictDecode" -> Via(dictDecode(st, q), d)
               [] d = "boolDecode" -> Via(boolDecode(st, q), d)
               [] d = "intDecode" -> Via(intDecode(st, q), d)
               [] d = "floatDecode" -> Via(floatDecode(st, q), d)
               [] d = "strDecode" -> Via(strDecode(st, q), d)
               [] OTHER -> Exc("FormatError", q)

(* ------------------------------- inputs -------------------------------- *)

SampleBytes == {0, 65, 255}
LongLens == {124, 125, 128}
IntSamples == {-32769, -32768, -129, -128, -1, 0, 1, 127, 128, 32767, 32768}
Tails == {<<>>, <<0>>, <<255>>, <<1, 128>>}

RECURSIVE SeqsUpTo(_, _)
SeqsUpTo(S, k) ==
  IF k = 0 THEN {<<>>}
  ELSE LET shorter == SeqsUpTo(S, k - 1)
       IN shorter \cup {Append(q, x) : q \in shorter, x \in S}

Strings == SeqsUpTo(SampleBytes, MaxStrLen) \cup {Repeat(<<65>>, k) : k \in LongLens}

FloatInputs ==
  {<<"nan", 0, 0, 0>>, <<"inf", 0, 0, 0>>, <<"-inf", 0, 0, 0>>,
   <<"fin", 0, 1, 0>>, <<"fin", 1, 2, 0>>, <<"fin", 3, 4, 1>>,
   <<"fin", -3, 4, 1>>, <<"fin", 1, 2, -1>>}

Scalars ==
  {VNil} \cup {VBool(b) : b \in BOOLEAN} \cup {VInt(i) : i \in IntSamples}
         \cup {VStr(s) : s \in Strings}

Compounds ==
  {VList(<<>>), VList(<<VInt(3), VStr(<<65>>), VBool(TRUE)>>),
   VList(<<VList(<<VInt(1)>>), VNil>>),
   VMap(<<>>), VMap(<<VStr(<<65>>), VInt(1), VStr(<<66>>), VInt(2)>>),
   VMap(<<VInt(1), VList(<<VInt(2)>>)>>)}

Values == Scalars \cup {VFloat(x) : x \in FloatInputs} \cup Compounds

\* the values written back to back when more than one is written
SeqValues ==
  {VNil, VInt(0), VInt(-129), VInt(32768), VStr(<<>>), VStr(<<65, 255>>),
   VStr(Repeat(<<65>>, 125)), VFloat(<<"nan", 0, 0, 0>>), VFloat(<<"fin", 3, 4, 1>>),
   VBool(TRUE), VList(<<VInt(3)>>)}

ValueSeqs ==
  {<<v>> : v \in Values} \cup (SeqsUpTo(SeqValues, MaxSeq) \ SeqsUpTo(SeqValues, 1))

Encodable(v) == IsBytes(varEncode(v))

\* a valid envelope cut short: <<value, number of bytes kept>>
Truncations ==
  {<<v, k>> : v \in {w \in Values : Encodable(w)}, k \in 0..6} \cap
  {c \in Values \X (0..6) : c[2] < Len(varEncode(c[1]).b)}

CraftTags == (0..8) \cup {255}
CraftBodies ==
  {<<>>, <<0>>, <<1>>, <<128, 5>>, <<128, 1, 65>>, <<128, 0, 128, 1, 128, 0>>}
NegLens == {-1, -2, -129}
Payloads == {<<>>, <<65>>, <<65, 66>>}

\* size, type byte and body put together by hand
Crafted ==
  {intEncode(1 + Len(b)).b \o <<t>> \o b : t \in CraftTags, b \in CraftBodies}
  \cup {intEncode(k).b \o p : k \in NegLens, p \in Payloads}
  \cup {intEncode(1 + Len(intEncode(k).b) + Len(p)).b \o <<6>> \o intEncode(k).b \o p :
          k \in NegLens, p \in Payloads}

\* three integer fields num, denom, e
Triples ==
  {intEncode(a).b \o intEncode(d).b \o intEncode(e).b :
     a \in -2..2, d \in {0, 1, 2}, e \in -1..1}

NoEnc == [ty |-> "none", b |-> <<>>]

(* ---------------------------- state machine ---------------------------- *)

Init ==
  /\ pos = 0 /\ starts = <<>> /\ enc = NoEnc /\ ret = NoRet /\ visited = 0
  /\ \/ pc = "gamma" /\ n \in 1..MaxGamma /\ stream \in Tails /\ vals = <<>>
     \/ pc = "int" /\ n \in (-MaxInt)..MaxInt /\ stream = <<>> /\ vals = <<>>
     \/ pc = "float" /\ n = 0 /\ stream = <<>>
          /\ vals \in {<<VFloat(x)>> : x \in FloatInputs}
     \/ pc = "var" /\ n = 0 /\ stream = <<>> /\ vals \in ValueSeqs
     \/ pc = "truncDec" /\ \E c \in Truncations :
          /\ vals = <<c[1]>> /\ n = c[2]
          /\ stream = SubSeq(varEncode(c[1]).b, 1, c[2])
     \/ pc = "rawDec" /\ n = 0 /\ vals = <<>> /\ stream \in Crafted
     \/ pc = "floatRaw" /\ n = 0 /\ vals = <<>> /\ stream \in Triples

\* eliasGammaEncode(n), written in front of the bytes that follow it
EliasGammaEncode ==
  /\ pc = "gamma"
  /\ enc' = eliasGammaEncode(n)
  /\ stream' = enc'.b \o stream
  /\ pc' = "gammaDec"
  /\ UNCHANGED <<n, vals, pos, starts, ret, visited>>

EliasGammaDecode ==
  /\ pc = "gammaDec"
  /\ ret' = eliasGammaDecode(stream, pos)
  /\ pos' = ret'.pos
  /\ visited' = visited + 1
  /\ pc' = "gammaDone"
  /\ UNCHANGED <<n, vals, stream, starts, enc>>

IntEncode ==
  /\ pc = "int"
  /\ enc' = intEncode(n)
  /\ stream' = enc'.b
  /\ pc' = "intDec"
  /\ UNCHANGED <<n, vals, pos, starts, ret, visited>>

IntDecode ==
  /\ pc = "intDec"
  /\ ret' = intDecode(stream, pos)
  /\ pos' = ret'.pos
  /\ visited' = visited + 1
  /\ pc' = "intDone"
  /\ UNCHANGED <<n, vals, stream, starts, enc>>

FloatEncode ==
  /\ pc = "float"
  /\ enc' = floatEncode(vals[1].f)
  /\ stream' = enc'.b
  /\ pc' = IF IsBytes(enc') THEN "floatDec" ELSE "floatFailed"
  /\ UNCHANGED <<n, vals, pos, starts, ret, visited>>

FloatDecode ==
  /\ pc \in {"floatDec", "floatRaw"}
  /\ ret' = floatDecode(stream, pos)
  /\ pos' = ret'.pos
  /\ visited' = visited + 1
  /\ pc' = IF pc = "floatDec" THEN "floatDone" ELSE "floatRawDone"
  /\ UNCHANGED <<n, vals, stream, starts, enc>>

\* stream.write(varEncode(v)) for the next value; an exception ends the run
VarEncode ==
  /\ pc = "var"
  /\ enc' = varEncode(vals[Len(starts) + 1])
  /\ IF IsBytes(enc')
     THEN /\ stream' = stream \o enc'.b
          /\ starts' = Append(starts, Len(stream))
          /\ pc' = IF Len(starts') = Len(vals) THEN "varDec" ELSE "var"
     ELSE /\ pc' = "varFailed"
          /\ UNCHANGED <<stream, starts>>
  /\ UNCHANGED <<n, vals, pos, ret, visited>>

VarDecode ==
  /\ pc \in {"varDec", "truncDec", "rawDec"}
  /\ ret' = varDecode(stream, pos)
  /\ pos' = ret'.pos
  /\ visited' = visited + 1
  /\ pc' = CASE pc = "truncDec" -> "truncDone"
             [] pc = "rawDec" -> "rawDone"
             [] OTHER -> IF ret'.kind = "ok" /\ visited' < Len(vals)
                         THEN "varDec" ELSE "varDone"
  /\ UNCHANGED <<n, vals, stream, starts, enc>>

Next ==
  \/ EliasGammaEncode
  \/ EliasGammaDecode
  \/ IntEncode
  \/ IntDecode
  \/ FloatEncode
  \/ FloatDecode
  \/ VarEncode
  \/ VarDecode

Spec == Init /\ [][Next]_vars

(* ----------------------------- properties ------------------------------ *)

\* the number of bits of x > 0, stated by its bounds
BitLenOf(x) == CHOOSE k \in 1..31 : Pow(2, k - 1) <= x /\ x < Pow(2, k)

CeilDiv(a, b) == (a + b - 1) \div b

\* the least number of bytes whose two's-complement range holds x
MinByteLen(x) ==
  CHOOSE k \in 1..3 :
    /\ -Pow(2, 8 * k - 1) <= x /\ x < Pow(2, 8 * k - 1)
    /\ \A j \in 1..(k - 1) : ~(-Pow(2, 8 * j - 1) <= x /\ x < Pow(2, 8 * j - 1))

\* x as k big-endian two's-complement bytes
BigEndian(x, k) ==
  [j \in 1..k |-> ((x + Pow(256, k)) % Pow(256, k)) \div Pow(256, k - j) % 256]

\* C7: eliasGammaEncode(n) is ceil((2*bitlen(n)-1)/8) bytes long, and
\* eliasGammaDecode on a stream that starts with it and goes on with any
\* bytes returns n with the cursor on the first byte after the encoding.
C7_GammaRoundTrip ==
  pc = "gammaDone" =>
    /\ Len(enc.b) = CeilDiv(2 * BitLenOf(n) - 1, 8)
    /\ ret.kind = "ok"
    /\ ret.val = VInt(n)
    /\ pos = Len(enc.b)
    /\ SubSeq(stream, pos + 1, Len(stream)) \in Tails

C7_Witness ==
  /\ pc = "gammaDone" /\ n = 4096 /\ Len(enc.b) = 4
  /\ ret.val = VInt(4096) /\ pos = 4 /\ Len(stream) = 6

\* C3: intDecode of intEncode(n) returns n, and intEncode(n) is the gamma
\* code of byteLen followed by byteLen big-endian two's-complement bytes,
\* byteLen the least byte count that still holds a sign bit.
C3_IntRoundTrip ==
  pc = "intDone" =>
    /\ ret.kind = "ok"
    /\ ret.val = VInt(n)
    /\ pos = Len(stream)
    /\ enc.ty = "array"
    /\ enc.b = eliasGammaEncode(MinByteLen(n)).b \o BigEndian(n, MinByteLen(n))

C3_Witness ==
  /\ pc = "intDone" /\ n = -129 /\ enc.b = <<64, 255, 127>> /\ ret.val = VInt(-129)

\* the type byte and the body varEncode puts in the envelope of v
TagOf(v) ==
  CASE v.t = "List" -> 1 [] v.t = "Map" -> 2 [] v.t = "Bool" -> 3
    [] v.t = "Int" -> 4 [] v.t = "Float" -> 5 [] v.t = "Str" -> 6 [] OTHER -> 0

BodyOf(v) ==
  CASE v.t = "Bool" -> boolEncode(v.b).b
    [] v.t = "Int" -> intEncode(v.i).b
    [] v.t = "Float" -> floatEncode(v.f).b
    [] v.t = "Str" -> strEncode(v.s).b
    [] OTHER -> <<>>

\* read a size field, jump over that many bytes, repeat to the end of the
\* stream: the number of envelopes passed, -1 when a jump misses the end
RECURSIVE SkipScan(_, _, _)
SkipScan(st, p, count) ==
  IF p = Len(st) THEN count
  ELSE LET h == intDecode(st, p)
       IN IF h.kind # "ok" \/ h.val.i < 0 \/ h.pos + h.val.i > Len(st) THEN -1
          ELSE SkipScan(st, h.pos + h.val.i, count + 1)

Written == pc \in {"var", "varDec", "varDone", "varFailed"}

\* C2: in a stream of varEncode outputs written back to back, reading the
\* size field of an envelope and advancing by that many bytes lands on the
\* first byte of the next envelope, or on the end of the stream after the
\* last; the size is 1 + len(body), and 0 for Nil; a skip-scan passes as
\* many envelopes as were written.
C2_SizeSkippable ==
  Written =>
    /\ \A k \in 1..Len(starts) :
         LET h == intDecode(stream, starts[k])
             next == IF k < Len(starts) THEN starts[k + 1] ELSE Len(stream)
         IN /\ h.kind = "ok"
            /\ h.pos + h.val.i = next
            /\ h.val.i = IF vals[k] = VNil THEN 0 ELSE 1 + Len(BodyOf(vals[k]))
    /\ SkipScan(stream, 0, 0) = Len(starts)
    /\ pc \in {"varDec", "varDone"} => Len(starts) = Len(vals)

C2_Witness ==
  /\ pc = "varDec" /\ Len(vals) = 2 /\ Len(starts) = 2
  /\ vals[1] = VStr(Repeat(<<65>>, 125)) /\ vals[2] = VInt(-129)
  /\ intDecode(stream, 0).val.i = 128
  /\ starts[2] = 3 + 128
  /\ SkipScan(stream, 0, 0) = 2

\* the value the last varEncode call was given
LastEncoded == IF pc = "varFailed" THEN vals[Len(starts) + 1] ELSE vals[Len(starts)]

EncodedOne == Written /\ enc # NoEnc

SizeField == intDecode(stream, 0)
HasTag == SizeField.kind = "ok" /\ SizeField.val.i > 0 /\ SizeField.pos < Len(stream)
TypeByte == stream[SizeField.pos + 1]

TagTable ==
  <<"listDecode", "dictDecode", "boolDecode", "intDecode", "floatDecode", "strDecode">>

\* C6: after a positive size, a type byte outside 1..6 makes varDecode raise
\* FormatError and return no value; a type byte in 1..6 is handed to the
\* decoder of 1=List, 2=Map, 3=Bool, 4=Int, 5=Float, 6=Str.
C6_UnknownTagRejected ==
  (pc = "rawDone" /\ HasTag) =>
    /\ TypeByte \notin 1..6 =>
         /\ ret.kind = "FormatError"
         /\ ret.val = VNil
         /\ ret.via = "none"
         /\ pos = SizeField.pos + 1
    /\ TypeByte \in 1..6 =>
         /\ ret.via = TagTable[TypeByte]
         /\ ret.kind # "FormatError"

C6_Witness ==
  /\ pc = "rawDone" /\ HasTag /\ TypeByte = 7
  /\ ret.kind = "FormatError" /\ Len(stream) > SizeField.pos + 1

ScalarKinds == {"Nil", "Bool", "Int", "Str"}

\* C1: for a Nil, Bool, Int or Str value v, varEncode(v) returns bytes and
\* varDecode on a stream holding them returns v in the same variant; a Bool
\* is written with type byte 3.
C1_ScalarRoundTrip ==
  /\ pc = "varFailed" => LastEncoded.t \notin ScalarKinds
  /\ (EncodedOne /\ LastEncoded.t = "Bool") =>
       (IsBytes(enc) /\ enc.b[Len(enc.b) - 1] = 3)
  /\ (pc \in {"varDec", "varDone"} /\ visited >= 1 /\ vals[visited].t \in ScalarKinds) =>
       (ret.kind = "ok" /\ ret.val = vals[visited])

\* C4: varEncode of a List or a Map returns the count and one envelope per
\* item (per key and per value), and varDecode returns the same items in
\* the same order.
C4_ListMapRoundTrip ==
  /\ pc = "varFailed" => LastEncoded.t \notin {"List", "Map"}
  /\ (pc \in {"varDec", "varDone"} /\ visited >= 1 /\ vals[visited].t \in {"List", "Map"}) =>
       (ret.kind = "ok" /\ ret.val = vals[visited])

\* C5: varDecode on a proper prefix of a valid envelope raises FormatError.
C5_TruncatedRejected ==
  pc = "truncDone" => (ret.kind = "FormatError" /\ ret.val = VNil)

\* the three integer fields at the head of a stream
Field1 == intDecode(stream, 0)
Field2 == intDecode(stream, Field1.pos)
Field3 == intDecode(stream, Field2.pos)

\* C8: floatEncode writes NaN as the fields (0, 0, 0), +Infinity as
\* (1, 0, 0) and -Infinity as (-1, 0, 0); floatDecode of fields with
\* denominator 0 returns NaN for numerator 0, +Infinity for a positive and
\* -Infinity for a negative numerator, without failing.
C8_FloatSpecials ==
  /\ (pc \in {"floatDec", "floatDone", "floatFailed"} /\ vals[1].f[1] # "fin") =>
       /\ IsBytes(enc)
       /\ enc.b = intEncode(CASE vals[1].f[1] = "inf" -> 1
                              [] vals[1].f[1] = "-inf" -> -1
                              [] OTHER -> 0).b \o intEncode(0).b \o intEncode(0).b
  /\ (pc \in {"floatDone", "floatRawDone"} /\ Field2.val.i = 0) =>
       /\ ret.kind = "ok"
       /\ ret.val.t = "Float"
       /\ ret.val.f[1] = (IF Field1.val.i = 0 THEN "nan"
                          ELSE IF Field1.val.i > 0 THEN "inf" ELSE "-inf")

\* C10: a negative envelope size, and a negative length field of a Str
\* body, both make varDecode raise FormatError and return no data.
C10_NegativeLengthRejected ==
  (pc = "rawDone" /\ SizeField.kind = "ok") =>
    /\ SizeField.val.i < 0 => (ret.kind = "FormatError" /\ ret.val = VNil)
    /\ (HasTag /\ TypeByte = 6 /\ intDecode(stream, SizeField.pos + 1).kind = "ok"
          /\ intDecode(stream, SizeField.pos + 1).val.i < 0) =>
         (ret.kind = "FormatError" /\ ret.val = VNil)

====
